---- MODULE Spec2Model ----
(***************************************************************************)
(* A model of the double buffered matrix engine (doubleBufferedMatrix.c):  *)
(* a matrix of doubles kept one file per column, with a column buffer      *)
(* (coldata / which_cols, oldest first) and, in row mode, a row buffer     *)
(* (rowdata / first_rowdata), kept coherent through a one-cell clash       *)
(* record.  C arrays are modelled as functions on 0..n-1, so every index   *)
(* below is the index the C code uses.                                     *)
(***************************************************************************)
EXTENDS Integers, FiniteSets, Sequences, TLC

(* ----------------------------- bounds ---------------------------------- *)
\* largest row count handed to dbm_setRows
MaxRows == 2
\* largest number of columns appended with dbm_AddColumn
MaxCols == 2
\* largest buffer size handed to dbm_alloc and dbm_ResizeBuffer
MaxBuf == 2
\* number of mutating calls (set, bulk set, ewApply) and of failed
\* dbm_AddColumn calls made in one run
MaxWrites == 1

\* the doubles stored in the cells; 0 is the value of a fresh column
Vals == {0, 1}

(* ----------------------------- helpers --------------------------------- *)
Min(S) == CHOOSE x \in S : \A y \in S : x <= y
Max(S) == CHOOSE x \in S : \A y \in S : y <= x
ALen(a) == Cardinality(DOMAIN a)
Zeros(n) == [i \in 0..(n-1) |-> 0]
EmptyArr == [i \in {} |-> 0]

\* Calloc(n, double): n zeroed doubles.  A request for 0 doubles still
\* returns a distinct minimum-size chunk; its first double is modelled so
\* that an access past the end of an empty row segment has a location
\* (such an access sets the ub flag of the run).
Calloc(n) == IF n <= 0 THEN Zeros(1) ELSE Zeros(n)

VARIABLES rows, cols, max_rows, max_cols, coldata, which_cols, rowdata,
          first_rowdata, files, rowcolclash, clash_row, clash_col,
          colmode, readonly, ref, writes, crashed

vars == <<rows, cols, max_rows, max_cols, coldata, which_cols, rowdata,
          first_rowdata, files, rowcolclash, clash_row, clash_col,
          colmode, readonly, ref, writes, crashed>>

\* struct _double_buffered_matrix, plus the files of the columns and the
\* marks of the current call: reads (the columns whose file was read, in
\* the order of the reads), ioerr (an fopen failed), ub (an access
\* outside an allocated array was made) and fault (a null FILE* or a
\* division by zero was used).
Cur == [rows |-> rows, cols |-> cols, max_rows |-> max_rows,
        max_cols |-> max_cols, coldata |-> coldata,
        which_cols |-> which_cols, rowdata |-> rowdata,
        first_rowdata |-> first_rowdata, files |-> files,
        rowcolclash |-> rowcolclash, clash_row |-> clash_row,
        clash_col |-> clash_col, colmode |-> colmode,
        readonly |-> readonly, ub |-> FALSE, fault |-> FALSE,
        stray |-> 0, ioerr |-> FALSE, reads |-> <<>>]

\* the descriptor with s in the memory outside the arrays
CurS(s) == [Cur EXCEPT !.stray = s]

\* lastcol as computed at the head of every internal function
Lastcol(M) == IF M.cols < M.max_cols THEN M.cols ELSE M.max_cols

(* ------------------------ internal functions --------------------------- *)
dbm_SetClash(M, row, col) ==
  [M EXCEPT !.rowcolclash = TRUE, !.clash_row = row, !.clash_col = col]

\* slots of the populated part of the column buffer holding column col
SlotsOf(M, col) == {k \in 0..(Lastcol(M)-1) : M.which_cols[k] = col}

\* the reconciliation run in the wrong direction: the column buffer's copy
\* overwrites the row buffer's
dbm_ClearClash_reversed(M) ==
  LET hits == SlotsOf(M, M.clash_col)
      idx == M.clash_row - M.first_rowdata
  IN IF hits = {} \/ idx \notin DOMAIN M.rowdata[M.clash_col]
       THEN [M EXCEPT !.rowcolclash = FALSE]
       ELSE [M EXCEPT !.rowdata[M.clash_col][idx] =
                         M.coldata[Min(hits)][M.clash_row],
                      !.rowcolclash = FALSE]

dbm_ClearClash(M) ==
  LET lastcol == Lastcol(M)
      hits == SlotsOf(M, M.clash_col)
      curcol == IF hits = {} THEN lastcol ELSE Min(hits)
      idx == M.clash_row - M.first_rowdata
      \* rowdata[clash_col] is read past the end of the pointer array when
      \* clash_col is not a column, and past the end of its segment when
      \* the segment was left out of a resize
      inrow == /\ M.clash_col \in DOMAIN M.rowdata
               /\ idx \in DOMAIN M.rowdata[M.clash_col]
      rv == IF inrow THEN M.rowdata[M.clash_col][idx] ELSE M.stray
      rowub == ~inrow \/ idx >= M.max_rows
  IN IF curcol \notin DOMAIN M.coldata
       \* coldata[lastcol] is read past the end of the pointer array: the
       \* stray pointer is outside the engine's buffers
       THEN [M EXCEPT !.rowcolclash = FALSE, !.ub = TRUE]
       ELSE IF rv # M.coldata[curcol][M.clash_row]
              THEN [M EXCEPT !.coldata[curcol][M.clash_row] = rv,
                             !.rowcolclash = FALSE,
                             !.ub = M.ub \/ rowub]
              ELSE [M EXCEPT !.rowcolclash = FALSE, !.ub = M.ub \/ rowub]

dbm_InRowBuffer(M, row) ==
  (M.first_rowdata <= row) /\ (row < M.first_rowdata + M.max_rows)

dbm_InColBuffer(M, col) == SlotsOf(M, col) # {}

\* the slot dbm_InColBuffer stores in *which_col_index (search from the end)
ColIndex(M, col) == Max(SlotsOf(M, col))

\* fseek to first_rowdata*sizeof(double); a negative offset is refused and
\* the position stays at the start of the file
SeekRow(M) == IF M.first_rowdata < 0 THEN 0 ELSE M.first_rowdata

\* the indices 0, 1, .., n-1 in the order of a for loop
UpTo(n) == [k \in 1..n |-> k - 1]

\* the first column whose file cannot be opened (cols if there is none):
\* the loops over the files return 1 there
FirstBad(M) ==
  LET bad == {j \in 0..(M.cols-1) : j \notin DOMAIN M.files}
  IN IF bad = {} THEN M.cols ELSE Min(bad)

dbm_FlushRowBuffer(M) ==
  LET off == SeekRow(M)
      stop == FirstBad(M)
  IN [M EXCEPT !.ioerr = M.ioerr \/ stop < M.cols, !.files =
        [j \in DOMAIN M.files |->
           IF j < stop
             THEN [i \in DOMAIN M.files[j] |->
                     IF off <= i /\ i < off + M.max_rows
                       THEN M.rowdata[j][i - off]
                       ELSE M.files[j][i]]
             ELSE M.files[j]]]

\* the oldest column leaves and its file is not written
dbm_FlushOldestColumn_nowrite(M) == M

dbm_FlushOldestColumn(M) ==
  LET c == M.which_cols[0]
  IN IF c \in DOMAIN M.files
       THEN [M EXCEPT !.files[c] = M.coldata[0]]
       ELSE [M EXCEPT !.ioerr = TRUE]

dbm_FlushAllColumns(M) ==
  LET lastcol == Lastcol(M)
      \* the loop returns at the first slot whose file cannot be opened
      bad == {k \in 0..(lastcol-1) : M.which_cols[k] \notin DOMAIN M.files}
      upto == IF bad = {} THEN lastcol ELSE Min(bad)
      slots(c) == {k \in 0..(upto-1) : M.which_cols[k] = c}
  IN [M EXCEPT !.ioerr = M.ioerr \/ bad # {}, !.files =
        [c \in DOMAIN M.files |->
           IF slots(c) # {} THEN M.coldata[Max(slots(c))] ELSE M.files[c]]]

\* a load that overwrites the oldest slot where it is, without shifting
ShiftIn_inplace(M, col, buf) ==
  [M EXCEPT !.coldata = [k \in DOMAIN M.coldata |->
                           IF k = 0 THEN buf ELSE M.coldata[k]],
            !.which_cols = [k \in DOMAIN M.which_cols |->
                           IF k = 0 THEN col ELSE M.which_cols[k]]]

ShiftIn(M, col, buf) ==
  \* the shift of the column buffer shared by dbm_LoadNewColumn and
  \* dbm_LoadNewColumn_nofill: oldest buffer reused at the end
  LET lastcol == Lastcol(M)
  IN [M EXCEPT
        !.coldata = [k \in DOMAIN M.coldata |->
                       IF k < lastcol - 1 THEN M.coldata[k+1]
                       ELSE IF k = lastcol - 1 THEN buf
                       ELSE M.coldata[k]],
        !.which_cols = [k \in DOMAIN M.which_cols |->
                       IF k < lastcol - 1 THEN M.which_cols[k+1]
                       ELSE IF k = lastcol - 1 THEN col
                       ELSE M.which_cols[k]]]

\* when the file cannot be opened the slot keeps what the evicted column
\* left in the buffer
dbm_LoadNewColumn(M, col) ==
  IF col \in DOMAIN M.files
    THEN [ShiftIn(M, col, M.files[col]) EXCEPT
            !.reads = Append(M.reads, col)]
    ELSE [ShiftIn(M, col, M.coldata[0]) EXCEPT !.ioerr = TRUE]

dbm_LoadNewColumn_nofill(M, col) == ShiftIn(M, col, M.coldata[0])

\* a load of the row buffer that takes the cached columns only and never
\* reads the files
dbm_LoadRowBuffer_cacheonly(M, row) ==
  LET first == IF row > M.rows - M.max_rows
                 THEN M.rows - M.max_rows ELSE row
  IN [M EXCEPT
        !.first_rowdata = first,
        !.rowdata =
          [j \in DOMAIN M.rowdata |->
             IF j < M.cols /\ SlotsOf(M, j) # {}
               THEN [k \in DOMAIN M.rowdata[j] |->
                       IF k < M.max_rows
                         THEN M.coldata[ColIndex(M, j)][first + k]
                         ELSE M.rowdata[j][k]]
               ELSE M.rowdata[j]]]

dbm_LoadRowBuffer(M, row) ==
  LET lastcol == Lastcol(M)
      first == IF row > M.rows - M.max_rows
                 THEN M.rows - M.max_rows ELSE row
      fromCache(j) == SlotsOf(M, j) # {}
      stop == FirstBad(M)
  IN IF stop < M.cols
       \* return 1 at the first file that cannot be opened: the columns
       \* before it are read from their files, nothing is taken from the
       \* column buffer
       THEN [M EXCEPT
               !.ioerr = TRUE,
               !.reads = M.reads \o UpTo(stop),
               !.first_rowdata = first,
               !.rowdata =
                 [j \in DOMAIN M.rowdata |->
                    IF j < stop
                      THEN [k \in DOMAIN M.rowdata[j] |->
                              IF k < M.max_rows THEN M.files[j][first + k]
                              ELSE M.rowdata[j][k]]
                      ELSE M.rowdata[j]]]
       ELSE [M EXCEPT
        \* the loop over j opens and reads the file of every column
        !.reads = M.reads \o UpTo(M.cols),
        !.first_rowdata = first,
        !.rowdata =
          [j \in DOMAIN M.rowdata |->
             IF j < M.cols
               THEN [k \in DOMAIN M.rowdata[j] |->
                       IF k < M.max_rows
                         THEN IF fromCache(j)
                                THEN M.coldata[ColIndex(M, j)][first + k]
                                ELSE M.files[j][first + k]
                         ELSE M.rowdata[j][k]]
               ELSE M.rowdata[j]]]

dbm_LoadAdditionalColumn(M, col, where) ==
  IF col \in DOMAIN M.files
    THEN [M EXCEPT !.coldata[where] = M.files[col],
                   !.which_cols[where] = col,
                   !.reads = Append(M.reads, col)]
    ELSE [M EXCEPT !.coldata[where] = Zeros(M.rows),
                   !.which_cols[where] = col, !.ioerr = TRUE]

\* dbm_internalgetValue returns a pointer: buf says which buffer it points
\* into, j and i are the two indices of the cell in that buffer
\* the cell is in the row buffer
RowHit(M, row, col) ==
  [M |-> IF dbm_InColBuffer(M, col) THEN dbm_SetClash(M, row, col) ELSE M,
   buf |-> "row", j |-> col, i |-> row - M.first_rowdata]

\* the cell is in the column buffer
ColHit(M, row, col) ==
  [M |-> M, buf |-> "col", j |-> ColIndex(M, col), i |-> row]

\* "Flush buffers": skipped in read-only mode
FlushBoth(M) ==
  IF ~M.readonly THEN dbm_FlushOldestColumn(dbm_FlushRowBuffer(M)) ELSE M

FlushColumn(M) ==
  IF ~M.readonly THEN dbm_FlushOldestColumn(M) ELSE M

\* &rowdata[col][row - first_rowdata] after both buffers were reloaded
RowLoaded(M, row, col) ==
  [M |-> [M EXCEPT !.ub = @ \/ (row - M.first_rowdata >= M.max_rows)],
   buf |-> "row", j |-> col, i |-> row - M.first_rowdata]

\* &coldata[max_cols - 1][row] after the column was loaded;
\* coldata[max_cols - 1] lies past the end of the pointer array when fewer
\* than max_cols columns are buffered
ColLoaded(M, row) ==
  [M |-> [M EXCEPT !.ub = @ \/ ((M.max_cols - 1) \notin DOMAIN M.coldata)],
   buf |-> "col", j |-> M.max_cols - 1, i |-> row]

\* the row-mode branch, after the clash was cleared
RowModePointer(M, row, col) ==
  IF dbm_InRowBuffer(M, row) THEN RowHit(M, row, col)
  ELSE IF dbm_InColBuffer(M, col) THEN ColHit(M, row, col)
  ELSE RowLoaded(
         dbm_SetClash(
           dbm_LoadNewColumn(dbm_LoadRowBuffer(FlushBoth(M), row), col),
           row, col),
         row, col)

PointerOf(M, row, col) ==
  IF ~M.colmode
    THEN RowModePointer(IF M.rowcolclash THEN dbm_ClearClash(M) ELSE M,
                        row, col)
    ELSE IF dbm_InColBuffer(M, col) THEN ColHit(M, row, col)
    ELSE ColLoaded(dbm_LoadNewColumn(FlushColumn(M), col), row)

\* the pointer lies inside one of the buffers
InBuffer(P) ==
  IF P.buf = "row"
    THEN P.j \in DOMAIN P.M.rowdata /\ P.i \in DOMAIN P.M.rowdata[P.j]
    ELSE P.j \in DOMAIN P.M.coldata /\ P.i \in DOMAIN P.M.coldata[P.j]

\* a pointer outside the buffers is an access outside an allocated array
Checked(P) == [P EXCEPT !.M.ub = P.M.ub \/ ~InBuffer(P)]

dbm_internalgetValue(M, row, col) == Checked(PointerOf(M, row, col))

\* *ptr for a pointer returned by dbm_internalgetValue
Deref(P) ==
  IF ~InBuffer(P) THEN P.M.stray
  ELSE IF P.buf = "row" THEN P.M.rowdata[P.j][P.i]
  ELSE P.M.coldata[P.j][P.i]

\* *ptr = v
Store(P, v) ==
  IF ~InBuffer(P) THEN P.M
  ELSE IF P.buf = "row" THEN [P.M EXCEPT !.rowdata[P.j][P.i] = v]
  ELSE [P.M EXCEPT !.coldata[P.j][P.i] = v]

(* --------------------------- public functions -------------------------- *)
\* Every public function is an operator from the descriptor M to the
\* descriptor after the call, with the int the C function returns (ret)
\* and, for the readers, the double stored through the out pointer (val).

InRange(M, row, col) ==
  ~((row >= M.rows) \/ (col >= M.cols) \/ (row < 0) \/ (col < 0))

dbm_setRows(M, Rows) ==
  IF M.rows > 0
    THEN [M |-> M, ret |-> 0]
    ELSE LET M1 == [M EXCEPT !.rows = Rows]
         IN [M |-> IF M1.rows < M1.max_rows
                     THEN [M1 EXCEPT !.max_rows = M1.rows] ELSE M1,
             ret |-> 1]

\* the row buffer gets one more zeroed segment (both branches of AddColumn)
\* a new row segment that is not cleared and keeps what the previous
\* column's segment holds
AddRowSegment_dirty(M) ==
  IF ~M.colmode
    THEN [M EXCEPT !.rowdata =
            [j \in 0..M.cols |->
               IF j < M.cols THEN M.rowdata[j]
               ELSE IF M.cols > 0 THEN M.rowdata[M.cols - 1]
               ELSE Calloc(M.max_rows)]]
    ELSE M

AddRowSegment(M) ==
  IF ~M.colmode
    THEN [M EXCEPT !.rowdata =
            [j \in 0..M.cols |->
               IF j < M.cols THEN M.rowdata[j] ELSE Calloc(M.max_rows)]]
    ELSE M

\* the housekeeping of indices of dbm_AddColumn, up to "now do the file
\* stuff"; which_col_num is the slot of the new column
AddColumnBuffers(M) ==
  IF M.cols < M.max_cols
    THEN
      LET M1 == [M EXCEPT
                   !.which_cols = [j \in 0..M.cols |->
                       IF j < M.cols THEN M.which_cols[j] ELSE M.cols],
                   !.coldata = [j \in 0..M.cols |->
                       IF j < M.cols THEN M.coldata[j] ELSE Zeros(M.rows)]]
      IN [M |-> AddRowSegment(M1), which_col_num |-> M.cols]
    ELSE
      LET old == M.which_cols[0]
          \* fopen(...,"rb+") of the oldest column and fwrite of its buffer
          M1 == IF old \in DOMAIN M.files
                  THEN [M EXCEPT !.files[old] = M.coldata[0]]
                  ELSE [M EXCEPT !.fault = TRUE]
          M2 == [M1 EXCEPT
                   !.which_cols = [j \in DOMAIN M.which_cols |->
                       IF j < M.max_cols - 1 THEN M.which_cols[j+1]
                       ELSE IF j = M.max_cols - 1 THEN M.cols
                       ELSE M.which_cols[j]],
                   !.coldata = [j \in DOMAIN M.coldata |->
                       IF j < M.max_cols - 1 THEN M.coldata[j+1]
                       ELSE IF j = M.max_cols - 1 THEN Zeros(M.rows)
                       ELSE M.coldata[j]]]
      IN [M |-> AddRowSegment(M2), which_col_num |-> M.max_cols - 1]

\* an append that counts the new column before its file is created
dbm_AddColumn_counted(M, io) ==
  LET B == AddColumnBuffers(M)
  IN [M |-> [B.M EXCEPT
               !.files = [j \in 0..M.cols |->
                   IF j < M.cols THEN B.M.files[j]
                   ELSE B.M.coldata[B.which_col_num]],
               !.cols = M.cols + 1],
      ret |-> IF io THEN 0 ELSE 1]

dbm_AddColumn(M, io) ==
  \* io = TRUE: the new file is created and written; io = FALSE: fopen of
  \* the new file fails ("Bad error")
  LET B == AddColumnBuffers(M)
  IN IF ~io
       THEN [M |-> B.M, ret |-> 1]
       ELSE [M |-> [B.M EXCEPT
                      !.files = [j \in 0..M.cols |->
                          IF j < M.cols THEN B.M.files[j]
                          ELSE B.M.coldata[B.which_col_num]],
                      !.cols = M.cols + 1],
             ret |-> 0]

\* the oldest column is written and the entries stay where they are
RemoveOldest_kept(M, lastcol) == dbm_FlushOldestColumn(M)

RemoveOldest(M, lastcol) ==
  \* one pass of the removal loop of dbm_ResizeColBuffer; lastcol is the
  \* value computed before the loop
  LET M1 == dbm_FlushOldestColumn(M)
  IN [M1 EXCEPT
        !.coldata = [k \in DOMAIN M1.coldata |->
                       IF k < lastcol - 1 THEN M1.coldata[k+1]
                       ELSE M1.coldata[k]],
        !.which_cols = [k \in DOMAIN M1.which_cols |->
                       IF k < lastcol - 1 THEN M1.which_cols[k+1]
                       ELSE M1.which_cols[k]]]

RECURSIVE RemoveN(_, _, _)
RemoveN(M, lastcol, n) ==
  IF n <= 0 THEN M ELSE RemoveN(RemoveOldest(M, lastcol), lastcol, n - 1)

\* the search loop of dbm_ResizeColBuffer filling whichadd[i..n-1]
RECURSIVE WhichAdd(_, _, _, _, _)
WhichAdd(M, i, n, min_j, acc) ==
  IF i >= n THEN acc
  ELSE LET cand == {j \in min_j..(M.cols-1) : ~dbm_InColBuffer(M, j)}
           j == IF cand # {} THEN Min(cand)
                ELSE IF min_j < M.cols THEN M.cols ELSE min_j
       IN WhichAdd(M, i + 1, n, j + 1,
                   IF cand # {} THEN [acc EXCEPT ![i] = j] ELSE acc)

RECURSIVE LoadAdditional(_, _, _, _, _)
LoadAdditional(M, whichadd, i, n, base) ==
  IF i >= n THEN M
  ELSE LoadAdditional(dbm_LoadAdditionalColumn(M, whichadd[i], base + i),
                      whichadd, i + 1, n, base)

dbm_ResizeColBuffer(M0, new_maxcol) ==
  LET M == IF M0.rowcolclash THEN dbm_ClearClash(M0) ELSE M0
      lastcol == Lastcol(M)
  IN IF new_maxcol <= 0 THEN [M |-> M, ret |-> 1]
     ELSE IF M.max_cols = new_maxcol THEN [M |-> M, ret |-> 0]
     ELSE IF M.max_cols > new_maxcol
       THEN
         IF new_maxcol < M.cols
           THEN
             LET n_cols_remove == IF M.max_cols < M.cols
                                    THEN M.max_cols - new_maxcol
                                    ELSE M.cols - new_maxcol
                 M1 == RemoveN(M, lastcol, n_cols_remove)
             IN [M |-> [M1 EXCEPT
                          !.coldata = [j \in 0..(new_maxcol-1) |->
                                         M1.coldata[j]],
                          !.which_cols = [j \in 0..(new_maxcol-1) |->
                                         M1.which_cols[j]],
                          !.max_cols = new_maxcol],
                 ret |-> 0]
           ELSE [M |-> [M EXCEPT !.max_cols = new_maxcol], ret |-> 0]
       ELSE
         IF ~(new_maxcol < M.cols) /\ ~(M.max_cols < M.cols)
           THEN [M |-> [M EXCEPT !.max_cols = new_maxcol], ret |-> 0]
           ELSE
             LET n_cols_add == IF new_maxcol < M.cols
                                 THEN new_maxcol - M.max_cols
                                 ELSE M.cols - M.max_cols
                 whichadd == WhichAdd(M, 0, n_cols_add, 0, Zeros(n_cols_add))
                 \* the new arrays (the unused tail of which_cols, which is
                 \* allocated longer than coldata, is left out)
                 M1 == [M EXCEPT
                          !.coldata =
                            [j \in 0..(M.max_cols + n_cols_add - 1) |->
                               IF j < M.max_cols THEN M.coldata[j]
                               ELSE EmptyArr],
                          !.which_cols =
                            [j \in 0..(M.max_cols + n_cols_add - 1) |->
                               IF j < M.max_cols THEN M.which_cols[j]
                               ELSE 0]]
                 M2 == LoadAdditional(M1, whichadd, 0, n_cols_add, M.max_cols)
             IN [M |-> [M2 EXCEPT !.max_cols = new_maxcol], ret |-> 0]

dbm_ResizeRowBuffer(M0, new_maxrow0) ==
  IF new_maxrow0 <= 0 THEN [M |-> M0, ret |-> 1]
  ELSE
    LET new_maxrow == IF new_maxrow0 > M0.rows THEN M0.rows ELSE new_maxrow0
    IN IF M0.colmode
         THEN [M |-> [M0 EXCEPT !.max_rows = new_maxrow], ret |-> 0]
         ELSE
           LET M == IF M0.rowcolclash THEN dbm_ClearClash(M0) ELSE M0
           IN IF M.max_rows = new_maxrow THEN [M |-> M, ret |-> 0]
              ELSE IF M.max_rows > new_maxrow
                THEN
                  LET M1 == dbm_FlushRowBuffer(M)
                  IN [M |-> [M1 EXCEPT
                               !.rowdata =
                                 [j \in DOMAIN M1.rowdata |->
                                    IF j < M1.cols
                                      THEN [i \in DOMAIN Calloc(new_maxrow) |->
                                              IF i < new_maxrow
                                                THEN M1.rowdata[j][i] ELSE 0]
                                      ELSE M1.rowdata[j]],
                               !.max_rows = new_maxrow],
                      ret |-> 0]
                ELSE
                  LET M1 == dbm_FlushRowBuffer(M)
                      M2 == [M1 EXCEPT
                               !.rowdata =
                                 [j \in DOMAIN M1.rowdata |->
                                    IF j < M1.cols THEN Calloc(new_maxrow)
                                    ELSE M1.rowdata[j]]]
                      new_first_rowdata ==
                        IF M2.first_rowdata + new_maxrow > M2.rows
                          THEN M2.rows - new_maxrow
                          ELSE M2.rows
                      M3 == [M2 EXCEPT !.max_rows = new_maxrow]
                  IN [M |-> dbm_LoadRowBuffer(M3, new_first_rowdata),
                      ret |-> 0]

dbm_ResizeBuffer(M, new_maxrow, new_maxcol) ==
  LET M1 == dbm_ResizeColBuffer(M, new_maxcol).M
  IN IF ~M1.colmode
       THEN [M |-> dbm_ResizeRowBuffer(M1, new_maxrow).M, ret |-> 0]
       ELSE [M |-> [M1 EXCEPT !.max_rows =
                      IF new_maxrow < 1 THEN 1
                      ELSE IF new_maxrow > M1.rows THEN M1.rows
                      ELSE new_maxrow],
             ret |-> 0]

dbm_RowMode(M) ==
  IF M.colmode
    THEN LET M1 == [M EXCEPT !.rowdata =
                      [j \in 0..(M.cols-1) |-> Calloc(M.max_rows)]]
         IN [dbm_LoadRowBuffer(M1, 0) EXCEPT !.colmode = FALSE]
    ELSE M

dbm_ColMode(M) ==
  IF ~M.colmode
    THEN LET M1 == IF M.rowcolclash THEN dbm_ClearClash(M) ELSE M
             M2 == dbm_FlushRowBuffer(M1)
         IN [M2 EXCEPT !.rowdata = EmptyArr, !.colmode = TRUE]
    ELSE M

dbm_ReadOnlyMode(M, setting) ==
  LET M3 == IF ~M.readonly /\ setting
              THEN LET M1 == IF ~M.colmode
                               THEN dbm_FlushRowBuffer(
                                      IF M.rowcolclash
                                        THEN dbm_ClearClash(M) ELSE M)
                               ELSE M
                   IN dbm_FlushAllColumns(M1)
              ELSE M
  IN [M3 EXCEPT !.readonly = setting]

\* the read-only shortcut at the end of the readers
DropClashIfReadOnly(M) ==
  IF ~M.colmode /\ M.readonly THEN [M EXCEPT !.rowcolclash = FALSE] ELSE M

dbm_getValue(M, row, col) ==
  IF ~InRange(M, row, col)
    THEN [M |-> M, ret |-> 0, val |-> 0]
    ELSE LET P == dbm_internalgetValue(M, row, col)
         IN [M |-> DropClashIfReadOnly(P.M), ret |-> 1, val |-> Deref(P)]

\* a setter without the read-only test
dbm_setValue_unguarded(M, row, col, value) ==
  IF ~InRange(M, row, col) THEN [M |-> M, ret |-> 0]
  ELSE [M |-> Store(dbm_internalgetValue(M, row, col), value), ret |-> 1]

dbm_setValue(M, row, col, value) ==
  IF M.readonly THEN [M |-> M, ret |-> 0]
  ELSE IF ~InRange(M, row, col) THEN [M |-> M, ret |-> 0]
  ELSE [M |-> Store(dbm_internalgetValue(M, row, col), value), ret |-> 1]

\* index / rows and index % rows; with rows = 0 the division traps
dbm_getValueSI(M, index) ==
  IF M.rows = 0 THEN [M |-> [M EXCEPT !.fault = TRUE], ret |-> 0, val |-> 0]
  ELSE dbm_getValue(M, index % M.rows, index \div M.rows)

dbm_setValueSI(M, index, value) ==
  IF M.rows = 0 THEN [M |-> [M EXCEPT !.fault = TRUE], ret |-> 0]
  ELSE dbm_setValue(M, index % M.rows, index \div M.rows, value)

(* The bulk functions visit cells in a fixed order.  A visit list is a    *)
(* sequence of <<row, col, pos>>: the cell handed to                       *)
(* dbm_internalgetValue and the index of the caller's array it goes with.  *)

\* for (a = 0; a < Len(outer); a++) for (b = 0; b < Len(inner); b++)
ColsThenRows(colseq, rowseq, keys, stride) ==
  [k \in 1..(Len(colseq) * Len(rowseq)) |->
     LET a == (k - 1) \div Len(rowseq)
         b == (k - 1) % Len(rowseq)
     IN <<rowseq[b + 1], colseq[a + 1], keys[a + 1] * stride + b>>]

RowsThenCols(rowseq, colseq, keys, stride) ==
  [k \in 1..(Len(colseq) * Len(rowseq)) |->
     LET b == (k - 1) \div Len(colseq)
         a == (k - 1) % Len(colseq)
     IN <<rowseq[b + 1], colseq[a + 1], keys[a + 1] * stride + b>>]

\* the columns in the buffer (BufferContents[0..max_cols-1]) followed by
\* the columns with colsdone[j] == 0 in ascending order
RECURSIVE Ascending(_, _, _)
Ascending(j, n, done) ==
  IF j >= n THEN <<>>
  ELSE IF j \in done THEN Ascending(j + 1, n, done)
  ELSE <<j>> \o Ascending(j + 1, n, done)

\* a visit of the columns in ascending order whatever the buffer holds
BufferFirst_ascending(M) ==
  UpTo(M.cols)

BufferFirst(M) ==
  LET inbuf == [k \in 1..M.max_cols |-> M.which_cols[k - 1]]
  IN inbuf \o Ascending(0, M.cols, {inbuf[k] : k \in 1..M.max_cols})

RECURSIVE ReadCells(_, _, _, _, _)
ReadCells(M, cells, k, clr, out) ==
  IF k > Len(cells) THEN [M |-> M, out |-> out]
  ELSE LET P == dbm_internalgetValue(M, cells[k][1], cells[k][2])
           M1 == IF clr THEN [P.M EXCEPT !.rowcolclash = FALSE] ELSE P.M
       IN IF cells[k][3] \in DOMAIN out
            THEN ReadCells(M1, cells, k + 1, clr,
                           [out EXCEPT ![cells[k][3]] = Deref(P)])
            \* a store past the end of the caller's array
            ELSE ReadCells([M1 EXCEPT !.ub = TRUE], cells, k + 1, clr, out)

\* *tmp = src(*tmp, pos): a store of a caller's value or of fn(*tmp)
RECURSIVE WriteCells(_, _, _, _)
WriteCells(M, cells, k, value) ==
  IF k > Len(cells) THEN M
  ELSE LET P == dbm_internalgetValue(M, cells[k][1], cells[k][2])
       IN IF cells[k][3] \in DOMAIN value
            THEN WriteCells(Store(P, value[cells[k][3]]), cells, k + 1, value)
            \* a read past the end of the caller's array: M.stray is what
            \* the memory there holds
            ELSE WriteCells([Store(P, M.stray) EXCEPT !.ub = TRUE],
                            cells, k + 1, value)

RECURSIVE ApplyCells(_, _, _, _)
ApplyCells(M, cells, k, fn) ==
  IF k > Len(cells) THEN M
  ELSE LET P == dbm_internalgetValue(M, cells[k][1], cells[k][2])
       IN ApplyCells(Store(P, fn[Deref(P)]), cells, k + 1, fn)

\* only cols[0] is tested
ColsValid_first(M, colseq) ==
  ~((colseq[1] >= M.cols) \/ (colseq[1] < 0))

ColsValid(M, colseq) ==
  \A j \in 1..Len(colseq) : ~((colseq[j] >= M.cols) \/ (colseq[j] < 0))

RowsValid(M, rowseq) ==
  \A i \in 1..Len(rowseq) : ~((rowseq[i] >= M.rows) \/ (rowseq[i] < 0))

\* the column-mode loop of dbm_getValueColumn: whole columns by memcpy
RECURSIVE GetColumnsColMode(_, _, _, _)
GetColumnsColMode(M, colseq, j, out) ==
  IF j > Len(colseq) THEN [M |-> M, out |-> out]
  ELSE
    LET c == colseq[j]
        M1 == IF dbm_InColBuffer(M, c) THEN M
              ELSE dbm_LoadNewColumn(
                     IF ~M.readonly THEN dbm_FlushOldestColumn(M) ELSE M, c)
        slot == IF dbm_InColBuffer(M, c) THEN ColIndex(M, c)
                ELSE M1.max_cols - 1
        past == slot \notin DOMAIN M1.coldata
    IN GetColumnsColMode([M1 EXCEPT !.ub = M1.ub \/ past], colseq, j + 1,
         [p \in DOMAIN out |->
            IF (j - 1) * M.rows <= p /\ p < j * M.rows
              THEN IF past THEN M.stray
                   ELSE M1.coldata[slot][p - (j - 1) * M.rows]
              ELSE out[p]])

dbm_getValueColumn(M, colseq, out0) ==
  IF ~ColsValid(M, colseq) THEN [M |-> M, ret |-> 0, out |-> out0]
  ELSE IF ~M.colmode
    THEN LET R == ReadCells(M,
                    ColsThenRows(colseq, UpTo(M.rows),
                                 UpTo(Len(colseq)), M.rows),
                    1, TRUE, out0)
         IN [M |-> R.M, ret |-> 1, out |-> R.out]
    ELSE LET R == GetColumnsColMode(M, colseq, 1, out0)
         IN [M |-> R.M, ret |-> 1, out |-> R.out]

\* the visit order of dbm_getValueRow, dbm_setValueRow
RowVisit(M, rowseq) ==
  IF M.colmode
    THEN IF M.cols > M.max_cols
           THEN LET cs == BufferFirst(M)
                IN ColsThenRows(cs, rowseq, cs, Len(rowseq))
           ELSE ColsThenRows(UpTo(M.cols), rowseq, UpTo(M.cols), Len(rowseq))
    ELSE RowsThenCols(rowseq, UpTo(M.cols), UpTo(M.cols), Len(rowseq))

dbm_getValueRow(M, rowseq, out0) ==
  IF ~RowsValid(M, rowseq) THEN [M |-> M, ret |-> 0, out |-> out0]
  ELSE LET R == ReadCells(M, RowVisit(M, rowseq), 1, TRUE, out0)
       IN [M |-> R.M, ret |-> 1, out |-> R.out]

RECURSIVE SetColumnsColMode(_, _, _, _)
SetColumnsColMode(M, colseq, j, value) ==
  IF j > Len(colseq) THEN M
  ELSE
    LET c == colseq[j]
        M1 == IF dbm_InColBuffer(M, c) THEN M
              ELSE dbm_LoadNewColumn_nofill(
                     IF ~M.readonly THEN dbm_FlushOldestColumn(M) ELSE M, c)
        slot == IF dbm_InColBuffer(M, c) THEN ColIndex(M, c)
                ELSE M1.max_cols - 1
    IN SetColumnsColMode(
         IF slot \in DOMAIN M1.coldata
           THEN [M1 EXCEPT !.coldata[slot] =
                   [i \in 0..(M.rows-1) |-> value[(j - 1) * M.rows + i]]]
           ELSE [M1 EXCEPT !.ub = TRUE],
         colseq, j + 1, value)

dbm_setValueColumn(M, colseq, value) ==
  IF M.readonly THEN [M |-> M, ret |-> 0]
  ELSE IF ~ColsValid(M, colseq) THEN [M |-> M, ret |-> 0]
  ELSE IF ~M.colmode
    THEN [M |-> WriteCells(M,
                  ColsThenRows(colseq, UpTo(M.rows),
                               UpTo(Len(colseq)), M.rows),
                  1, value),
          ret |-> 1]
    ELSE [M |-> SetColumnsColMode(M, colseq, 1, value), ret |-> 1]

dbm_setValueRow(M, rowseq, value) ==
  IF M.readonly THEN [M |-> M, ret |-> 0]
  ELSE IF ~RowsValid(M, rowseq) THEN [M |-> M, ret |-> 0]
  ELSE [M |-> WriteCells(M, RowVisit(M, rowseq), 1, value), ret |-> 1]

\* the visit order of dbm_ewApply (and of the whole-matrix scans)
ScanVisit(M) ==
  IF M.cols > M.max_cols
    THEN ColsThenRows(BufferFirst(M), UpTo(M.rows), BufferFirst(M), 0)
    ELSE ColsThenRows(UpTo(M.cols), UpTo(M.rows), UpTo(M.cols), 0)

dbm_ewApply(M, fn) ==
  LET R == ApplyCells(M, ScanVisit(M), 1, fn)
      \* colsdone[BufferContents[j]] = 1 is a store past the end of
      \* colsdone when the column buffer lists an index that is not a column
      past == /\ M.cols > M.max_cols
              /\ \E k \in 0..(M.max_cols-1) : M.which_cols[k] >= M.cols
  IN [M |-> [R EXCEPT !.ub = R.ub \/ past], ret |-> 1]

\* the scan of dbm_sum: sum += *value over the cells in the visit order
\* (no cell of the model is NaN)
RECURSIVE SumCells(_, _, _, _)
SumCells(M, cells, k, sum) ==
  IF k > Len(cells) THEN [M |-> M, sum |-> sum]
  ELSE LET P == dbm_internalgetValue(M, cells[k][1], cells[k][2])
       IN SumCells(P.M, cells, k + 1, sum + Deref(P))

dbm_sum(M) ==
  LET past == /\ M.cols > M.max_cols
              /\ \E k \in 0..(M.max_cols-1) : M.which_cols[k] >= M.cols
      R == SumCells(M, ScanVisit(M), 1, 0)
  IN [M |-> [R.M EXCEPT !.ub = R.M.ub \/ past], sum |-> R.sum]

\* the loops of dbm_copyValues: *tmp = *value, cell by cell, the source
\* looked up before the target
RECURSIVE CopyCells(_, _, _, _)
CopyCells(T, S, cells, k) ==
  IF k > Len(cells) THEN [T |-> T, S |-> S]
  ELSE LET value == dbm_internalgetValue(S, cells[k][1], cells[k][2])
           tmp == dbm_internalgetValue(T, cells[k][1], cells[k][2])
       IN CopyCells(Store(tmp, Deref(value)), value.M, cells, k + 1)

dbm_copyValues(T, S) ==
  IF (S.rows # T.rows) \/ (S.cols # T.cols)
    THEN [T |-> T, S |-> S, ret |-> 0]
    ELSE LET R == CopyCells(T, S,
                    ColsThenRows(UpTo(S.cols), UpTo(S.rows), UpTo(S.cols), 0),
                    1)
         IN [T |-> R.T, S |-> R.S, ret |-> 1]

\* the descriptor dbm_alloc returns
dbm_alloc(mr, mc) ==
  [rows |-> 0, cols |-> 0, max_rows |-> mr, max_cols |-> mc,
   coldata |-> EmptyArr, which_cols |-> EmptyArr, rowdata |-> EmptyArr,
   first_rowdata |-> 0, files |-> EmptyArr, rowcolclash |-> FALSE,
   clash_row |-> 0, clash_col |-> 0, colmode |-> TRUE, readonly |-> FALSE,
   ub |-> FALSE, fault |-> FALSE, stray |-> 0, ioerr |-> FALSE,
   reads |-> <<>>]

\* n calls of dbm_AddColumn
RECURSIVE AddColumns(_, _)
AddColumns(M, n) ==
  IF n = 0 THEN M ELSE AddColumns(dbm_AddColumn(M, TRUE).M, n - 1)

\* dbm_setValue of (row + col + 1) % 2 into every cell, column by column
RECURSIVE FillCells(_, _, _)
FillCells(M, cells, k) ==
  IF k > Len(cells) THEN M
  ELSE FillCells(dbm_setValue(M, cells[k][1], cells[k][2],
                              (cells[k][1] + cells[k][2] + 1) % 2).M,
                 cells, k + 1)

\* a second matrix of nr rows and nc columns: dbm_alloc, dbm_setRows, nc
\* times dbm_AddColumn, dbm_RowMode if asked for, then every cell set
Built(mr, mc, nr, nc, rowmode) ==
  LET M0 == dbm_alloc(mr, mc)
      M1 == IF nr > 0 THEN AddColumns(dbm_setRows(M0, nr).M, nc) ELSE M0
      M2 == IF rowmode /\ nr > 0 THEN dbm_RowMode(M1) ELSE M1
  IN [FillCells(M2, ColsThenRows(UpTo(M2.cols), UpTo(M2.rows),
                                 UpTo(M2.cols), 0), 1)
        EXCEPT !.reads = <<>>]

\* results[key] += *value at the cell the pointer P is at
AddAt(P, key, results) ==
  [M |-> P.M, results |-> [results EXCEPT ![key] = @ + Deref(P)]]

\* the loops of dbm_rowSums (bycol = FALSE: results[i]) and of
\* dbm_singlecolSums under dbm_colSums (bycol = TRUE: results[j])
RECURSIVE AddCells(_, _, _, _, _)
RECURSIVE AddRest(_, _, _, _)
AddRest(R, cells, k, bycol) == AddCells(R.M, cells, k, bycol, R.results)

AddCells(M, cells, k, bycol, results) ==
  IF k > Len(cells) THEN [M |-> M, results |-> results]
  ELSE AddRest(AddAt(dbm_internalgetValue(M, cells[k][1], cells[k][2]),
                     IF bycol THEN cells[k][2] ELSE cells[k][1], results),
               cells, k + 1, bycol)

\* columns in ascending order, whatever the buffer holds
dbm_rowSums(M) ==
  AddCells(M, ColsThenRows(UpTo(M.cols), UpTo(M.rows), UpTo(M.cols), 0),
           1, FALSE, Zeros(M.rows))

\* buffered columns first, as in dbm_sum
dbm_colSums(M) ==
  AddCells([M EXCEPT !.ub = @ \/ (/\ M.cols > M.max_cols
                                  /\ \E k \in 0..(M.max_cols-1) :
                                       M.which_cols[k] >= M.cols)],
           ScanVisit(M), 1, TRUE, Zeros(M.cols))

\* results[0] + .. + results[n-1]
RECURSIVE Total(_, _)
Total(results, n) ==
  IF n = 0 THEN 0 ELSE results[n - 1] + Total(results, n - 1)

\* the doubles of the model are the naturals and the NaN that R_NaReal is
R_NaReal == 0 - 1
ISNAN(x) == x = R_NaReal

\* one cell of dbm_rowVars, P the pointer to cell (i, j): column 0 starts
\* the running mean of row i, a later column updates mean and sum of
\* squares, a NaN is counted and skipped whatever naflag is.  The pair
\* <<n, d>> stands for the double n / d.
VarCell(A, i, j, P) ==
  IF j = 0
  THEN IF ISNAN(Deref(P))
       THEN [A EXCEPT !.M = P.M, !.foundNA[i] = @ + 1, !.means[i] = <<0, 1>>,
                      !.results[i] = <<0, 1>>, !.counts[i] = 1]
       ELSE [A EXCEPT !.M = P.M, !.means[i] = <<Deref(P), 1>>,
                      !.results[i] = <<0, 1>>, !.counts[i] = 2]
  ELSE IF ISNAN(Deref(P))
       THEN [A EXCEPT !.M = P.M, !.foundNA[i] = @ + 1]
       ELSE LET c == A.counts[i]
                md == A.means[i][2]
                dv == Deref(P) * A.means[i][2] - A.means[i][1]
            IN [A EXCEPT !.M = P.M,
                         !.results[i] =
                            <<@[1] * c * md * md + @[2] * (c - 1) * dv * dv,
                              @[2] * c * md * md>>,
                         !.means[i] = <<@[1] * c + dv, @[2] * c>>,
                         !.counts[i] = c + 1]

RECURSIVE VarCells(_, _, _)
VarCells(A, cells, k) ==
  IF k > Len(cells) THEN A
  ELSE VarCells(VarCell(A, cells[k][1], cells[k][2],
                        dbm_internalgetValue(A.M, cells[k][1], cells[k][2])),
                cells, k + 1)

\* results[i] is <<0, 0>> where the code stores R_NaReal
dbm_rowVars(M, naflag) ==
  LET A == VarCells([M |-> M, results |-> Zeros(M.rows),
                     means |-> Zeros(M.rows), counts |-> Zeros(M.rows),
                     foundNA |-> Zeros(M.rows)],
                    ColsThenRows(UpTo(M.cols), UpTo(M.rows), UpTo(M.cols), 0),
                    1)
  IN [M |-> A.M,
      results |->
        [i \in 0..(M.rows - 1) |->
           IF A.foundNA[i] = M.cols THEN <<0, 0>>
           ELSE IF A.counts[i] > 2
                THEN <<A.results[i][1], A.results[i][2] * (A.counts[i] - 2)>>
                ELSE <<0, 0>>]]

\* rPsort(buffer, n, k): the value the partial sort leaves in buffer[k], the
\* one a full sort of buffer[0..n-1] puts at position k
rPsort(buffer, n, k) ==
  CHOOSE v \in {buffer[p] : p \in 0..(n - 1)} :
    /\ Cardinality({p \in 0..(n - 1) : buffer[p] < v}) <= k
    /\ Cardinality({p \in 0..(n - 1) : buffer[p] <= v}) > k

\* the loop of dbm_rowMedians over the columns of row i, from column j on:
\* A.n is j_nonNA, A.j the value of j when the loop is left
RECURSIVE MedianRow(_, _, _, _)
MedianRow(A, i, j, naflag) ==
  IF j >= A.M.cols THEN [A EXCEPT !.j = j]
  ELSE LET P == dbm_internalgetValue(A.M, i, j)
       IN IF ISNAN(Deref(P))
          THEN IF ~naflag
               THEN [A EXCEPT !.M = P.M, !.results[i] = <<0, 0>>, !.j = j]
               ELSE MedianRow([A EXCEPT !.M = P.M], i, j + 1, naflag)
          ELSE MedianRow([A EXCEPT !.M = P.M, !.buffer[A.n] = Deref(P),
                                   !.n = @ + 1],
                         i, j + 1, naflag)

\* what follows the loop: results[i] of row i.  In the even case the code
\* stores buffer[n/2] into results[i] and then averages results[j], not
\* results[i], with buffer[n/2 - 1]; results[j] lies outside the caller's
\* array when j >= rows.  <<n, d>> stands for the double n / d.
MedianStore(A, i) ==
  IF A.n = 0 THEN [A EXCEPT !.results[i] = <<0, 0>>]
  ELSE IF A.n % 2 = 1
  THEN [A EXCEPT !.results[i] = <<rPsort(A.buffer, A.n, (A.n - 1) \div 2), 1>>]
  ELSE LET slot == IF A.j = i THEN <<rPsort(A.buffer, A.n, A.n \div 2), 1>>
                   ELSE IF A.j < A.M.rows THEN A.results[A.j]
                   ELSE <<A.M.stray, 1>>
           low == rPsort(A.buffer, A.n, A.n \div 2 - 1)
       IN [A EXCEPT !.M.ub = @ \/ (A.j >= A.M.rows),
                    !.results[i] = <<slot[1] + low * slot[2], 2 * slot[2]>>]

RECURSIVE MedianRows(_, _, _)
MedianRows(A, i, naflag) ==
  IF i >= A.M.rows THEN A
  ELSE MedianRows(MedianStore(MedianRow([A EXCEPT !.n = 0], i, 0, naflag), i),
                  i + 1, naflag)

\* results is the caller's array of rows doubles
dbm_rowMedians(M, naflag, results) ==
  MedianRows([M |-> M, results |-> results, buffer |-> Zeros(M.cols),
              n |-> 0, j |-> 0],
             0, naflag)

(* ------------------------------ the machine ---------------------------- *)
\* ref is the plain rows x cols matrix run side by side with the engine:
\* ref[c][r] is the value last stored into (r, c) by a call that reported
\* success, 0 for a cell never written.  writes counts the mutating calls.
\* crashed says that a call did not return.

\* dbm_alloc(max_rows, max_cols, prefix, directory)
Init ==
  /\ rows = 0 /\ cols = 0
  /\ max_rows \in 1..MaxBuf /\ max_cols \in 1..MaxBuf
  /\ coldata = EmptyArr /\ which_cols = EmptyArr /\ rowdata = EmptyArr
  /\ first_rowdata = 0 /\ files = EmptyArr
  /\ rowcolclash = FALSE /\ clash_row = 0 /\ clash_col = 0
  /\ colmode = TRUE /\ readonly = FALSE
  /\ ref = EmptyArr /\ writes = 0 /\ crashed = FALSE

\* the call returns: the descriptor is M
Return(M, nref, nw) ==
  /\ rows' = M.rows /\ cols' = M.cols
  /\ max_rows' = M.max_rows /\ max_cols' = M.max_cols
  /\ coldata' = M.coldata /\ which_cols' = M.which_cols
  /\ rowdata' = M.rowdata /\ first_rowdata' = M.first_rowdata
  /\ files' = M.files /\ rowcolclash' = M.rowcolclash
  /\ clash_row' = M.clash_row /\ clash_col' = M.clash_col
  /\ colmode' = M.colmode /\ readonly' = M.readonly
  /\ ref' = nref /\ writes' = nw /\ crashed' = FALSE

\* the call does not return: the process is killed inside it
Killed ==
  /\ crashed' = TRUE
  /\ UNCHANGED <<rows, cols, max_rows, max_cols, coldata, which_cols,
                 rowdata, first_rowdata, files, rowcolclash, clash_row,
                 clash_col, colmode, readonly, ref, writes>>

\* A call that used a null FILE* or divided by zero is killed; a call that
\* accessed memory outside its arrays is killed or returns.
Finish(M0, nref, nw) ==
  \E M \in {M0} :
    \/ /\ ~M.fault /\ Return(M, nref, nw)
    \/ /\ (M.fault \/ M.ub) /\ Killed

\* the arguments of the calls
RowArgs == 0..MaxRows
BufArgs == 0..MaxBuf
\* index lists of one or two entries below n
IndexLists(n) ==
  {<<a>> : a \in 0..(n-1)} \cup {<<a, b>> : a \in 0..(n-1), b \in 0..(n-1)}
\* caller's arrays of n doubles: constant, alternating by cell, alternating
\* by pair of cells
ValueArrays(n) ==
  {[p \in 0..(n-1) |-> v] : v \in Vals}
    \cup {[p \in 0..(n-1) |-> p % 2], [p \in 0..(n-1) |-> (p \div 2) % 2]}
\* what the memory behind a caller's array may hold; it is read only when
\* the column buffer lists an index that is not a column
StrayVals ==
  IF \E k \in 0..(Lastcol(Cur)-1) : which_cols[k] >= cols THEN Vals ELSE {0}
\* the functions handed to dbm_ewApply
Fns == [Vals -> Vals]

\* the plain matrix after the bulk stores (later entries of a list win)
RECURSIVE RefSetColumns(_, _, _, _)
RefSetColumns(m, colseq, j, value) ==
  IF j > Len(colseq) THEN m
  ELSE RefSetColumns(
         [m EXCEPT ![colseq[j]] =
            [i \in DOMAIN m[colseq[j]] |->
               value[(j - 1) * ALen(m[colseq[j]]) + i]]],
         colseq, j + 1, value)

RECURSIVE RefSetRows(_, _, _, _)
RefSetRows(m, rowseq, i, value) ==
  IF i > Len(rowseq) THEN m
  ELSE RefSetRows(
         [c \in DOMAIN m |->
            [m[c] EXCEPT ![rowseq[i]] = value[c * Len(rowseq) + (i - 1)]]],
         rowseq, i + 1, value)

SetRows(n) ==
  /\ ~crashed
  /\ \E s \in StrayVals :
     Finish(dbm_setRows(CurS(s), n).M, ref, writes)

\* callers set the rows before they add a column (comment of dbm_AddColumn)
AddColumn ==
  /\ ~crashed /\ rows > 0 /\ cols < MaxCols
  /\ \E s \in StrayVals :
     Finish(dbm_AddColumn(CurS(s), TRUE).M,
            [j \in 0..cols |-> IF j < cols THEN ref[j] ELSE Zeros(rows)],
            writes)

\* dbm_AddColumn when the file of the new column cannot be created
AddColumnFail ==
  /\ ~crashed /\ rows > 0 /\ cols < MaxCols /\ writes < MaxWrites
  /\ \E s \in StrayVals :
     Finish(dbm_AddColumn(CurS(s), FALSE).M, ref, writes + 1)

ResizeBuffer(nr, nc) ==
  /\ ~crashed
  /\ \E s \in StrayVals :
     Finish(dbm_ResizeBuffer(CurS(s), nr, nc).M, ref, writes)

RowMode ==
  /\ ~crashed
  /\ \E s \in StrayVals :
     Finish(dbm_RowMode(CurS(s)), ref, writes)

ColMode ==
  /\ ~crashed
  /\ \E s \in StrayVals :
     Finish(dbm_ColMode(CurS(s)), ref, writes)

ReadOnlyMode(setting) ==
  /\ ~crashed
  /\ \E s \in StrayVals :
     Finish(dbm_ReadOnlyMode(CurS(s), setting), ref, writes)

GetValue(r, c) ==
  /\ ~crashed
  /\ \E s \in StrayVals :
     Finish(dbm_getValue(CurS(s), r, c).M, ref, writes)

GetValueSI(index) ==
  /\ ~crashed
  /\ \E s \in StrayVals :
     Finish(dbm_getValueSI(CurS(s), index).M, ref, writes)

GetValueColumn(colseq) ==
  /\ ~crashed
  /\ \E s \in StrayVals :
     Finish(dbm_getValueColumn(CurS(s), colseq, Zeros(Len(colseq) * rows)).M,
            ref, writes)

GetValueRow(rowseq) ==
  /\ ~crashed
  /\ \E s \in StrayVals :
     Finish(dbm_getValueRow(CurS(s), rowseq, Zeros(Len(rowseq) * cols)).M,
            ref, writes)

SetValue(r, c, v) ==
  /\ ~crashed /\ writes < MaxWrites
  /\ \E s \in StrayVals :
     LET R == dbm_setValue(CurS(s), r, c, v)
     IN Finish(R.M,
               IF R.ret = 1 THEN [ref EXCEPT ![c][r] = v] ELSE ref,
               IF R.ret = 1 THEN writes + 1 ELSE writes)

SetValueSI(index, v) ==
  /\ ~crashed /\ writes < MaxWrites
  /\ \E s \in StrayVals :
     LET R == dbm_setValueSI(CurS(s), index, v)
     IN Finish(R.M,
               IF R.ret = 1
                 THEN [ref EXCEPT ![index \div rows][index % rows] = v]
                 ELSE ref,
               IF R.ret = 1 THEN writes + 1 ELSE writes)

SetValueColumn(colseq, value) ==
  /\ ~crashed /\ writes < MaxWrites
  /\ \E s \in StrayVals :
     LET R == dbm_setValueColumn(CurS(s), colseq, value)
     IN Finish(R.M,
               IF R.ret = 1 THEN RefSetColumns(ref, colseq, 1, value) ELSE ref,
               IF R.ret = 1 THEN writes + 1 ELSE writes)

SetValueRow(rowseq, value) ==
  /\ ~crashed /\ writes < MaxWrites
  /\ \E s \in StrayVals :
     LET R == dbm_setValueRow(CurS(s), rowseq, value)
     IN Finish(R.M,
               IF R.ret = 1 THEN RefSetRows(ref, rowseq, 1, value) ELSE ref,
               IF R.ret = 1 THEN writes + 1 ELSE writes)

EwApply(fn) ==
  /\ ~crashed /\ writes < MaxWrites
  /\ \E s \in StrayVals :
     Finish(dbm_ewApply(CurS(s), fn).M,
            [c \in DOMAIN ref |-> [r \in DOMAIN ref[c] |-> fn[ref[c][r]]]],
            writes + 1)

Next ==
  \/ \E n \in RowArgs : SetRows(n)
  \/ AddColumn
  \/ \E nr \in BufArgs, nc \in BufArgs : ResizeBuffer(nr, nc)
  \/ RowMode
  \/ ColMode
  \/ \E s \in BOOLEAN : ReadOnlyMode(s)
  \/ \E r \in 0..rows, c \in 0..cols : GetValue(r, c)
  \/ \E index \in 0..(rows * cols) : GetValueSI(index)
  \/ \E colseq \in IndexLists(cols) : GetValueColumn(colseq)
  \/ \E rowseq \in IndexLists(rows) : GetValueRow(rowseq)
  \/ \E r \in 0..rows, c \in 0..cols, v \in Vals : SetValue(r, c, v)
  \/ \E index \in 0..(rows * cols), v \in Vals : SetValueSI(index, v)
  \/ \E colseq \in IndexLists(cols) :
       \E value \in ValueArrays(Len(colseq) * rows) :
         SetValueColumn(colseq, value)
  \/ \E rowseq \in IndexLists(rows) :
       \E value \in ValueArrays(Len(rowseq) * cols) :
         SetValueRow(rowseq, value)
  \/ \E fn \in Fns : EwApply(fn)

Spec == Init /\ [][Next]_vars

\* the same machine when the creation of a column file can fail
NextIO == Next \/ AddColumnFail

SpecIO == Init /\ [][NextIO]_vars

\* the double dbm_getValue hands back for a cell in state M
\* the call runs while fopen fails (returns NULL) for the files of the
\* columns in S
WithoutFiles(M, S) ==
  [M EXCEPT !.files = [j \in (DOMAIN M.files) \ S |-> M.files[j]]]

CellOf(M, r, c) == dbm_getValue(M, r, c).val

\* the matrix a caller reads cell by cell in state M
ViewOf(M) ==
  [c \in 0..(M.cols-1) |-> [r \in 0..(M.rows-1) |-> CellOf(M, r, c)]]

View == ViewOf(Cur)

(* ------------------------------- claims -------------------------------- *)
\* C1: buffering is transparent: after any sequence of calls, every cell
\* read with dbm_getValue is the value last stored into it by a call that
\* reported success, or 0 for a cell never written.
C1_Transparent == ~crashed => View = ref

ValidRows == 0..(rows-1)
ValidCols == 0..(cols-1)

\* C2: with read_only false, in both modes and whatever the buffers hold,
\* a dbm_setValue (or dbm_setValueSI) that reports success followed at
\* once by a dbm_getValue (dbm_getValueSI) of the same cell reads back the
\* value stored.
C2_RoundTrip ==
  (~crashed /\ ~readonly) =>
    \A r \in ValidRows, c \in ValidCols, v \in Vals :
      LET S == dbm_setValue(Cur, r, c, v)
          G == dbm_getValue(S.M, r, c)
          SI == dbm_setValueSI(Cur, c * rows + r, v)
          GI == dbm_getValueSI(SI.M, c * rows + r)
      IN /\ S.ret = 1 /\ G.ret = 1 /\ G.val = v
         /\ SI.ret = 1 /\ GI.ret = 1 /\ GI.val = v

\* a value was just stored through the row buffer into a cell that is also
\* in the column buffer, and the two copies differ
C2_Witness ==
  /\ ~crashed /\ ~readonly /\ ~colmode /\ rowcolclash
  /\ dbm_InColBuffer(Cur, clash_col) /\ dbm_InRowBuffer(Cur, clash_row)
  /\ rowdata[clash_col][clash_row - first_rowdata]
       # coldata[ColIndex(Cur, clash_col)][clash_row]
  /\ ref[clash_col][clash_row] = 1

\* C3: every cell keeps its value across dbm_ReadOnlyMode(TRUE), a read
\* made while read-only (which may evict, reload or move the row buffer
\* without write-back) and dbm_ReadOnlyMode(FALSE): the read returns the
\* value the cell had, and so does every read after the switch back.
C3_Persistence ==
  (~crashed /\ ~readonly) =>
    \A r \in ValidRows, c \in ValidCols :
      LET A == dbm_ReadOnlyMode(Cur, TRUE)
          G == dbm_getValue(A, r, c)
          B == dbm_ReadOnlyMode(G.M, FALSE)
      IN /\ A.readonly /\ ~B.readonly
         /\ G.ret = 1 /\ G.val = View[c][r]
         /\ ViewOf(B) = View

C5_ResizeKeepsData ==
  ~crashed =>
    \A nr \in 1..MaxBuf, nc \in 1..MaxBuf :
      ViewOf(dbm_ResizeBuffer(Cur, nr, nc).M) = View

\* C6: while read_only is true the value of every cell stays the same
\* across every call other than the one that switches read-only off.
C6_ReadOnlyFreezes ==
  [][(readonly /\ readonly' /\ ~crashed') =>
       \A c \in ValidCols, r \in ValidRows : View'[c][r] = View[c][r]]_vars

C9_CacheDistinct ==
  ~crashed =>
    /\ ALen(coldata) <= Lastcol(Cur)
    /\ \A k \in 0..(Lastcol(Cur)-1) :
         /\ which_cols[k] \in ValidCols
         /\ \A k2 \in 0..(Lastcol(Cur)-1) :
              k2 # k => which_cols[k2] # which_cols[k]

\* C10: in row mode the row buffer lies inside the matrix.
C10_RowWindowBounds ==
  (~crashed /\ ~colmode) =>
    (0 <= first_rowdata /\ first_rowdata + max_rows <= rows)

\* C11: dbm_getValue, dbm_setValue, dbm_getValueSI and dbm_setValueSI with
\* a row outside [0, rows) or a column outside [0, cols) return 0 and
\* leave the descriptor and the files as they were.
C11_OutOfRangeRejected ==
  ~crashed =>
    /\ \A r \in (-1)..rows, c \in (-1)..cols, v \in Vals :
         ~InRange(Cur, r, c) =>
           LET G == dbm_getValue(Cur, r, c)
               S == dbm_setValue(Cur, r, c, v)
           IN G.ret = 0 /\ G.M = Cur /\ S.ret = 0 /\ S.M = Cur
    /\ \A index \in {-1, rows * cols, rows * cols + 1}, v \in Vals :
         LET G == dbm_getValueSI(Cur, index)
             S == dbm_setValueSI(Cur, index, v)
         IN G.ret = 0 /\ G.M = Cur /\ S.ret = 0 /\ S.M = Cur

\* C12: rows is write-once: after a dbm_setRows that returned 1, whatever
\* its argument, every dbm_setRows returns 0, and rows, once positive,
\* keeps its value.
C12_RowsWriteOnce ==
  [][/\ (\E n \in RowArgs :
           SetRows(n) /\ dbm_setRows(Cur, n).ret = 1 /\ ~crashed')
        => \A m \in RowArgs : (dbm_setRows(Cur, m).ret)' = 0
     /\ (rows > 0 => rows' = rows)]_vars

\* C13: dbm_ResizeBuffer with a non-positive new_maxrow or new_maxcol
\* reports failure and leaves the descriptor (max_rows, max_cols, column
\* buffer, row buffer) as it was.
C13_ResizeNonPositiveRejected ==
  ~crashed =>
    \A nr \in (-1)..MaxBuf, nc \in (-1)..MaxBuf :
      (nr <= 0 \/ nc <= 0) =>
        LET R == dbm_ResizeBuffer(Cur, nr, nc)
        IN R.ret # 0 /\ R.M = Cur

\* C14: an operation during which a file cannot be opened (eviction
\* write-back, column load, flush or load of the row buffer) reports
\* failure: dbm_getValue, dbm_setValue and the column accessors return 0,
\* dbm_ResizeBuffer returns a non-zero result.
C14_IOFailurePropagates ==
  ~crashed =>
    \A lost \in ValidCols, r \in ValidRows, c \in ValidCols :
      LET E == WithoutFiles(Cur, {lost})
          G == dbm_getValue(E, r, c)
          S == dbm_setValue(E, r, c, 1)
          GC == dbm_getValueColumn(E, <<c>>, Zeros(rows))
          RB == dbm_ResizeBuffer(E, 1, 1)
      IN /\ G.M.ioerr => G.ret = 0
         /\ S.M.ioerr => S.ret = 0
         /\ GC.M.ioerr => GC.ret = 0
         /\ RB.M.ioerr => RB.ret # 0

EvictedOrder(M, c) ==
  [k \in 0..(M.max_cols - 1) |->
     IF k < M.max_cols - 1 THEN M.which_cols[k+1] ELSE c]

\* the access must bring column c into a full column buffer
MissOnFull(M, r, c) ==
  /\ ~dbm_InColBuffer(M, c)
  /\ M.colmode \/ ~dbm_InRowBuffer(M, r)
  /\ M.cols >= M.max_cols

\* the current matrix, and the matrix after one more dbm_AddColumn
NowAndAppended ==
  IF rows > 0 THEN {Cur, dbm_AddColumn(Cur, TRUE).M} ELSE {Cur}

\* C16: eviction is first-in first-out. A dbm_getValue or dbm_setValue that
\* must bring a column into a full column buffer, and a dbm_AddColumn on a
\* full buffer, drop the entry at position 0, move the others down by one
\* in order and put the new column last; an access to a buffered column
\* leaves which_cols as it is.
C16_FifoEviction ==
  ~crashed =>
    \A B \in NowAndAppended :
      /\ \A r \in 0..(B.rows - 1), c \in 0..(B.cols - 1) :
           LET G == dbm_getValue(B, r, c)
               S == dbm_setValue(B, r, c, 1)
           IN /\ dbm_InColBuffer(B, c) =>
                   /\ G.M.which_cols = B.which_cols
                   /\ S.M.which_cols = B.which_cols
              /\ MissOnFull(B, r, c) =>
                   /\ G.M.which_cols = EvictedOrder(B, c)
                   /\ ~B.readonly => S.M.which_cols = EvictedOrder(B, c)
      /\ (B.rows > 0 /\ B.cols >= B.max_cols) =>
           dbm_AddColumn(B, TRUE).M.which_cols = EvictedOrder(B, B.cols)

\* a full buffer of two columns held in the order 1, 0: the next append
\* evicts column 1 and the access to it that follows evicts column 0
C16_Witness ==
  /\ ~crashed /\ rows > 0 /\ cols = 2 /\ max_cols = 2
  /\ which_cols = [k \in 0..1 |-> 1 - k]
  /\ MissOnFull(dbm_AddColumn(Cur, TRUE).M, 0, 1)

\* the columns that are not in the column buffer
NotCached(M) == {c \in 0..(M.cols - 1) : ~dbm_InColBuffer(M, c)}

\* the log holds each column of S once and nothing else
ReadsOnce(log, S) ==
  /\ Len(log) = Cardinality(S)
  /\ {log[k] : k \in 1..Len(log)} = S

\* C17: in column mode with cols > max_cols, one dbm_getValueRow (and one
\* dbm_setValueRow) reads no file of a column that is in the buffer when
\* the call starts and reads the file of every other column exactly once:
\* the number of loads is the number of columns not buffered at the start.
C17_RowAccessLoadsOnce ==
  ~crashed =>
    \A B \in NowAndAppended :
      (B.colmode /\ B.cols > B.max_cols) =>
        \A rs \in IndexLists(B.rows) :
          LET G == dbm_getValueRow(B, rs, Zeros(Len(rs) * B.cols))
              S == dbm_setValueRow(B, rs, Zeros(Len(rs) * B.cols))
          IN /\ G.ret = 1 /\ ReadsOnce(G.M.reads, NotCached(B))
             /\ ~B.readonly => S.ret = 1 /\ ReadsOnce(S.M.reads, NotCached(B))

\* two rows, two columns behind a buffer of one column that holds column 1:
\* a dbm_getValueRow of both rows loads column 0 once
C17_Witness ==
  /\ ~crashed /\ colmode /\ rows = 2 /\ cols = 2 /\ max_cols = 1
  /\ which_cols[0] = 1
  /\ dbm_getValueRow(Cur, UpTo(2), Zeros(4)).M.reads = UpTo(1)

\* no column occurs twice in the log of the file reads of one call
AtMostOnce(log) ==
  \A a \in 1..Len(log), b \in 1..Len(log) : a # b => log[a] # log[b]

\* C18: during one scan of the whole matrix (dbm_sum, and dbm_ewApply, which
\* has the same loops as dbm_max, dbm_min, dbm_mean and dbm_var), in column
\* mode and in row mode, the file of each column is read at most once.
C18_ScanReadsOnce ==
  ~crashed =>
    /\ AtMostOnce(dbm_sum(Cur).M.reads)
    /\ \A fn \in Fns : AtMostOnce(dbm_ewApply(Cur, fn).M.reads)

\* the second matrices of the dimensions nr x nc, over the buffer sizes and
\* the two modes
Others(nr, nc) ==
  {Built(mr, mc, nr, nc, rm) :
     mr \in 1..MaxBuf, mc \in 1..MaxBuf, rm \in BOOLEAN}

\* C19: after a dbm_copyValues between two matrices of equal dimensions,
\* whatever their buffers and modes, the call has returned 1 and every cell
\* of the target reads as the same cell of the source; with unequal
\* dimensions the call returns 0 and the target is left as it was.
C19_CopyEquivalence ==
  ~crashed =>
    /\ \A O \in Others(rows, cols) :
         LET A == dbm_copyValues(Cur, O)
             B == dbm_copyValues(O, Cur)
         IN /\ A.ret = 1 /\ B.ret = 1
            /\ ViewOf(A.T) = ViewOf(A.S)
            /\ ViewOf(B.T) = ViewOf(B.S)
    /\ \A nr \in 1..MaxRows, nc \in 0..MaxCols :
         (nr # rows \/ nc # cols) =>
           LET O == Built(1, 1, nr, nc, FALSE)
               A == dbm_copyValues(Cur, O)
           IN A.ret = 0 /\ A.T = Cur

\* C20: dbm_ewApply(fn) returns 1 and leaves every cell reading as fn of
\* what it read before the call (fn applied once per cell), in every
\* reachable state, in both modes, also with cols > max_cols; with fn the
\* identity every cell reads as before.
C20_EwApplyEveryCell ==
  ~crashed =>
    \A fn \in Fns :
      LET R == dbm_ewApply(Cur, fn)
      IN /\ R.ret = 1
         /\ ViewOf(R.M) =
              [c \in 0..(cols-1) |-> [r \in 0..(rows-1) |-> fn[View[c][r]]]]

\* C21: in every reachable state (no cell is NaN), dbm_sum, the total of
\* dbm_colSums and the total of dbm_rowSums are equal, and equal to the
\* total of the values dbm_getValue gives for the cells, each counted once.
C21_ReductionAgreement ==
  ~crashed =>
    \A s \in Vals :
      LET all == Total([c \in 0..(cols-1) |-> Total(View[c], rows)], cols)
      IN /\ dbm_sum(CurS(s)).sum = all
         /\ Total(dbm_colSums(CurS(s)).results, cols) = all
         /\ Total(dbm_rowSums(CurS(s)).results, rows) = all


\* C22: with naflag = 0 a NaN propagates: once a cell of row r holds NaN,
\* dbm_rowVars gives NaN for row r, in the current matrix and in the matrix
\* with one more column.
C22_NaNPropagates ==
  ~crashed =>
    \A B \in NowAndAppended :
      \A r \in 0..(B.rows - 1), c \in 0..(B.cols - 1) :
        LET S == dbm_setValue(B, r, c, R_NaReal)
        IN S.ret = 1 => dbm_rowVars(S.M, FALSE).results[r] = <<0, 0>>


\* the median of the n values v[0..n-1], none of them NaN, as <<n, d>>
MedianOf(v, n) ==
  IF n % 2 = 1 THEN <<rPsort(v, n, (n - 1) \div 2), 1>>
  ELSE <<rPsort(v, n, n \div 2) + rPsort(v, n, n \div 2 - 1), 2>>

\* C23: dbm_rowMedians stores for every row the median of the values of the
\* row that are not NaN: the middle order statistic when their number is
\* odd, the average of the two central ones when it is even.
C23_RowMedians ==
  (~crashed /\ rows > 0 /\ cols > 0) =>
    \A s \in Vals, naflag \in BOOLEAN, x \in Vals :
      LET R == dbm_rowMedians(CurS(s), naflag, [i \in 0..(rows - 1) |-> <<x, 1>>])
      IN \A r \in ValidRows :
           LET m == MedianOf([c \in ValidCols |-> View[c][r]], cols)
           IN /\ R.results[r][2] # 0
              /\ R.results[r][1] * m[2] = m[1] * R.results[r][2]


\* C24: a scan changes the value of no cell: after dbm_sum (the loops of
\* dbm_max, dbm_min, dbm_mean and dbm_var), dbm_colSums, dbm_rowSums,
\* dbm_rowVars and dbm_rowMedians, in both modes, read-only or not,
\* dbm_getValue gives for every cell what it gave before.
C24_ScansKeepData ==
  ~crashed =>
    \A s \in Vals :
      /\ ViewOf(dbm_sum(CurS(s)).M) = View
      /\ ViewOf(dbm_colSums(CurS(s)).M) = View
      /\ ViewOf(dbm_rowSums(CurS(s)).M) = View
      /\ ViewOf(dbm_rowVars(CurS(s), FALSE).M) = View
      /\ ViewOf(dbm_rowMedians(CurS(s), FALSE,
                               [i \in 0..(rows - 1) |-> <<0, 1>>]).M) = View


\* index lists of one or two entries with at least one entry outside 0..n-1
BadLists(n) ==
  {l \in {<<a>> : a \in (-1)..n} \cup {<<a, b>> : a \in (-1)..n, b \in (-1)..n} :
     \E k \in 1..Len(l) : l[k] \notin 0..(n - 1)}

RECURSIVE SetEach(_, _, _, _)
SetEach(M, cells, k, value) ==
  IF k > Len(cells) THEN M
  ELSE SetEach(dbm_setValue(M, cells[k][1], cells[k][2], value[cells[k][3]]).M,
               cells, k + 1, value)

\* out[cells[k][3]] = the value dbm_getValue gives for the cell cells[k],
\* one call after the other in the order of the list
RECURSIVE GetEach(_, _, _, _)
GetEach(M, cells, k, out) ==
  IF k > Len(cells) THEN out
  ELSE GetEach(dbm_getValue(M, cells[k][1], cells[k][2]).M, cells, k + 1,
               [out EXCEPT ![cells[k][3]] =
                  dbm_getValue(M, cells[k][1], cells[k][2]).val])

\* C26: the bulk accessors agree with the per-cell ones, in both modes and
\* whatever the buffers hold: dbm_getValueColumn and dbm_getValueRow hand
\* back what the dbm_getValue calls of the same cells give, and after dbm_setValueColumn
\* or dbm_setValueRow every cell reads what it reads after the dbm_setValue
\* calls of the same cells in the same order (a later duplicate wins).
C26_BulkAgreesWithCells ==
  ~crashed =>
    /\ \A colseq \in IndexLists(cols) :
         /\ LET G == dbm_getValueColumn(Cur, colseq, Zeros(Len(colseq) * rows))
            IN /\ G.ret = 1
               /\ G.out = GetEach(Cur,
                                   ColsThenRows(colseq, UpTo(rows),
                                                UpTo(Len(colseq)), rows),
                                   1, Zeros(Len(colseq) * rows))
         /\ ~readonly =>
              \A value \in ValueArrays(Len(colseq) * rows) :
                LET S == dbm_setValueColumn(Cur, colseq, value)
                IN /\ S.ret = 1
                   /\ ViewOf(S.M) =
                        ViewOf(SetEach(Cur,
                                 ColsThenRows(colseq, UpTo(rows),
                                              UpTo(Len(colseq)), rows),
                                 1, value))
    /\ \A rowseq \in IndexLists(rows) :
         /\ LET G == dbm_getValueRow(Cur, rowseq, Zeros(Len(rowseq) * cols))
            IN /\ G.ret = 1
               /\ G.out = GetEach(Cur,
                                   RowsThenCols(rowseq, UpTo(cols), UpTo(cols),
                                                Len(rowseq)),
                                   1, Zeros(Len(rowseq) * cols))
         /\ ~readonly =>
              \A value \in ValueArrays(Len(rowseq) * cols) :
                LET S == dbm_setValueRow(Cur, rowseq, value)
                IN /\ S.ret = 1
                   /\ ViewOf(S.M) =
                        ViewOf(SetEach(Cur,
                                 RowsThenCols(rowseq, UpTo(cols), UpTo(cols),
                                              Len(rowseq)),
                                 1, value))


\* C27: a column exists only in a matrix with rows > 0, and rows keeps its
\* value once a column exists: a dbm_AddColumn that returns 0 leaves
\* rows > 0, and no dbm_setRows after it changes rows.
C27_AppendNeedsRows ==
  ~crashed =>
    LET R == dbm_AddColumn(Cur, TRUE)
    IN /\ cols > 0 => rows > 0
       /\ R.ret = 0 => R.M.rows > 0
       /\ R.ret = 0 => \A n \in RowArgs : dbm_setRows(R.M, n).M.rows = R.M.rows


C29_ReadOnlyCoherent ==
  (~crashed /\ ~readonly) =>
    LET A == dbm_ReadOnlyMode(Cur, TRUE)
    IN /\ A.readonly
       /\ \A c \in ValidCols, r \in ValidRows :
            /\ A.files[c][r] = View[c][r]
            /\ A.files[c][r] = CellOf(A, r, c)


\* every cell of the row buffer of B is the copy of the column buffer where
\* the column is buffered and the content of the file where it is not
WindowLoaded(B) ==
  \A c \in 0..(B.cols - 1), k \in 0..(B.max_rows - 1) :
    B.rowdata[c][k] =
      IF dbm_InColBuffer(B, c)
        THEN B.coldata[ColIndex(B, c)][B.first_rowdata + k]
        ELSE B.files[c][B.first_rowdata + k]

NowAndThreeRows ==
  {Cur} \cup {dbm_getValue(O, r, c).M : O \in Others(3, 2), r \in 0..2, c \in 0..1}

\* C31: dbm_ResizeRowBuffer in row mode anchors the row buffer: growing to
\* new_maxrow rows leaves first_rowdata as it is when first_rowdata +
\* new_maxrow <= rows and makes it rows - new_maxrow otherwise; shrinking
\* leaves first_rowdata as it is.
C31_ResizeRowAnchors ==
  ~crashed =>
    \A B \in NowAndThreeRows :
      (~B.colmode /\ B.rows > 0 /\ B.max_rows > 0 /\ B.first_rowdata >= 0) =>
        \A nr \in 1..B.rows :
          LET Z == dbm_ResizeRowBuffer(B, nr).M
          IN /\ Z.max_rows = nr
             /\ Z.first_rowdata =
                  IF nr > B.max_rows /\ B.first_rowdata + nr > B.rows
                    THEN B.rows - nr ELSE B.first_rowdata


C33_ClashIsGenuine ==
  (~crashed /\ rowcolclash) =>
    /\ ~colmode
    /\ dbm_InColBuffer(Cur, clash_col)
    /\ dbm_InRowBuffer(Cur, clash_row)
    /\ rowdata[clash_col][clash_row - first_rowdata]
         # coldata[ColIndex(Cur, clash_col)][clash_row]


\* C34: with readonly set and colmode clear, rowcolclash is 0 when a read
\* returns: dbm_getValue, dbm_getValueSI, dbm_getValueColumn, dbm_getValueRow
\* and the scans dbm_sum, dbm_rowSums, dbm_colSums.
C34_ReadOnlyReadsLeaveNoClash ==
  (~crashed /\ readonly /\ ~colmode /\ rows > 0 /\ cols > 0) =>
    /\ \A r \in ValidRows, c \in ValidCols :
         /\ ~dbm_getValue(Cur, r, c).M.rowcolclash
         /\ ~dbm_getValueSI(Cur, c * rows + r).M.rowcolclash
    /\ \A cs \in IndexLists(cols) :
         ~dbm_getValueColumn(Cur, cs, Zeros(rows * Len(cs))).M.rowcolclash
    /\ \A rs \in IndexLists(rows) :
         ~dbm_getValueRow(Cur, rs, Zeros(cols * Len(rs))).M.rowcolclash
    /\ ~dbm_sum(Cur).M.rowcolclash
    /\ ~dbm_rowSums(Cur).M.rowcolclash
    /\ ~dbm_colSums(Cur).M.rowcolclash


\* C35: once rows is positive, max_rows is at least 1 and at most rows.
C35_MaxRowsInRange ==
  (~crashed /\ rows > 0) => (1 <= max_rows /\ max_rows <= rows)


\* C36: in row mode, when a call has returned, every cell that is in the row
\* buffer and whose column is in the column buffer has the same value in both,
\* except the cell (clash_row, clash_col) while rowcolclash is set.
C36_BuffersCoherent ==
  (~crashed /\ ~colmode) =>
    \A c \in ValidCols, r \in ValidRows :
      (dbm_InColBuffer(Cur, c) /\ dbm_InRowBuffer(Cur, r)) =>
        \/ rowdata[c][r - first_rowdata] = coldata[ColIndex(Cur, c)][r]
        \/ (rowcolclash /\ clash_col = c /\ clash_row = r)


\* C37: while rowcolclash is set the descriptor is in row mode, clash_col is
\* in the column buffer and clash_row is in the row buffer.
C37_ClashCellStaysBuffered ==
  (~crashed /\ rowcolclash) =>
    /\ ~colmode
    /\ dbm_InColBuffer(Cur, clash_col)
    /\ dbm_InRowBuffer(Cur, clash_row)


\* C38: with readonly clear, a cell that is in neither buffer (in column
\* mode: not in the column buffer) has in its file the value last stored
\* into it, or 0 if nothing was stored.
C38_UnbufferedCellsOnFile ==
  (~crashed /\ ~readonly) =>
    \A c \in ValidCols, r \in ValidRows :
      (~dbm_InColBuffer(Cur, c) /\ (colmode \/ ~dbm_InRowBuffer(Cur, r))) =>
        files[c][r] = ref[c][r]


\* C39: while readonly is set, every copy of a cell held in the column buffer
\* or (in row mode) in the row buffer equals the value in the cell's file.
C39_ReadOnlyBuffersMatchFiles ==
  (~crashed /\ readonly) =>
    \A c \in ValidCols, r \in ValidRows :
      /\ dbm_InColBuffer(Cur, c) => coldata[ColIndex(Cur, c)][r] = files[c][r]
      /\ (~colmode /\ dbm_InRowBuffer(Cur, r)) =>
           rowdata[c][r - first_rowdata] = files[c][r]


\* C40: the column buffer holds min(cols, max_cols) distinct columns of the
\* matrix; with cols <= max_cols every column is in it; and a dbm_getValue
\* that finds its cell in no buffer runs with cols >= max_cols and leaves
\* the column it asked for in slot max_cols - 1.
C40_ColBufferFull ==
  ~crashed =>
    /\ \A k \in 0..(Lastcol(Cur) - 1) :
         /\ k \in DOMAIN coldata /\ k \in DOMAIN which_cols
         /\ which_cols[k] \in ValidCols
         /\ \A j \in 0..(Lastcol(Cur) - 1) :
              which_cols[j] = which_cols[k] => j = k
    /\ cols <= max_cols => \A c \in ValidCols : dbm_InColBuffer(Cur, c)
    /\ \A c \in ValidCols, r \in ValidRows :
         (~dbm_InColBuffer(Cur, c) /\ (colmode \/ ~dbm_InRowBuffer(Cur, r))) =>
           LET G == dbm_getValue(Cur, r, c).M
           IN /\ cols >= max_cols
              /\ (max_cols - 1) \in DOMAIN G.which_cols
              /\ G.which_cols[max_cols - 1] = c
              /\ Lastcol(G) = max_cols

====
